---- MODULE Spec2Model ----
(***************************************************************************)
(* PCM framing and pacing of the 21AI agent worker drafts.                 *)
(*                                                                         *)
(* One playback call is modelled per behaviour.  `variant` names the draft *)
(* whose loop runs:                                                        *)
(*   "index"   src/index.js            playPcmAsFrames (byte offsets, 16k) *)
(*   "part005" src/unnamed/part_005    playPcmAsFrames (byte offsets, 48k) *)
(*   "copy"    src/unnamed/part_003    playPcmAsFrames (sample offsets,    *)
(*             copying loop; part_001:117-158 is the same code)            *)
(*   "stream"  src/unnamed/part_001    streamPcmToLivekit (Int16Array in)  *)
(*   "test"    src/unnamed/part_003    runTestAgentSession (one frame)     *)
(*                                                                         *)
(* Every action is one run-to-completion chunk of the JavaScript code:     *)
(* from the settling of one awaited promise to the next await.             *)
(*                                                                         *)
(* Spec, SpecCfg, SpecFair and SpecRerun run the playback loops frame by   *)
(* frame; SpecSession runs two /start-session requests of one worker       *)
(* (route, startAgent / handler / runTestAgentSession, ttsElevenLabs) and  *)
(* counts the frames of each playback.                                     *)
(***************************************************************************)
EXTENDS Integers, Sequences, FiniteSets, TLC

VARIABLES
    variant,          \* which draft's code runs
    sampleRate,       \* SAMPLE_RATE of the draft
    frameDurationMs,  \* FRAME_DURATION_MS of the draft
    pcmBuffer,        \* the bytes handed to the playback call (0..255 each)
    pc,               \* position of the async function
    offset,           \* `offset` of the loop: bytes in index.js and part_005,
                      \* samples in the stream loop, twice the (possibly
                      \* half-integral) sample offset in the copying loop
    endOffset,        \* `endOffset` (index.js, part_005) / `end` (stream)
    frameSamples,     \* `frameSamples` of the copying loop, times two
    inFlight,         \* frames handed to captureFrame and not yet settled
    delivered,        \* frames whose captureFrame resolved, in order
    events,           \* external calls made so far, in order
    otherServed,      \* other requests the event loop served meanwhile
    earlierRuns,      \* the completed earlier playbacks of the same buffer
    env,              \* process.env of the worker: TTS_MODE, and whether
                      \* ELEVENLABS_API_KEY and LIVEKIT_WS_URL are set
    sessions,         \* the /start-session requests of the session layer
    sources,          \* per AudioSource, the sessions whose frames it was
                      \* handed, in captureFrame order
    processUp,        \* the worker process is running
    edgeReqs,         \* the requests to the edge function that calls the
                      \* worker: position, timers, error classes, response
    tsWorker,         \* the TypeScript worker: its environment and its
                      \* /start-session requests
    fwdReqs           \* the /start-session requests of the forwarding worker

vars == << variant, sampleRate, frameDurationMs, pcmBuffer, pc, offset,
           endOffset, frameSamples, inFlight, delivered, events, otherServed,
           earlierRuns, env, sessions, sources, processUp, edgeReqs, tsWorker,
           fwdReqs >>

\* the state of the other programs of the repository
httpVars == << edgeReqs, tsWorker, fwdReqs >>

\* the state outside one playback call
outerVars == << earlierRuns, env, sessions, sources, processUp, httpVars >>

\* the state of the session layer
sessionVars == << env, sessions, sources, processUp >>

\* the state of one playback call
playVars == << pcmBuffer, pc, offset, endOffset, frameSamples, inFlight,
               delivered, events, otherServed, earlierRuns >>

----------------------------------------------------------------------------
(* Program constants *)

SAMPLE_RATE_16K == 16000
SAMPLE_RATE_48K == 48000
NUM_CHANNELS == 1
FRAME_DURATION_MS == 20
BYTES_PER_SAMPLE == 2
TEST_DURATION_SEC == 6

(* Bounds of the model *)

\* buffers hold up to MaxFrames nominal frames plus a short tail
MaxFrames == 3
\* other requests served while one playback is suspended
MaxOther == 1
\* captureFrame calls one playback may make (the loop of a zero-sized frame
\* never ends, so the model stops it here)
MaxCalls == 6
\* samples kept of the 288000-sample test tone of runTestAgentSession
MaxToneSamples == 2000

PlayVariants == {"index", "part005", "copy", "stream"}
ByteVariants == {"index", "part005"}
Variants == PlayVariants \cup {"test"}

Min(a, b) == IF a < b THEN a ELSE b

\* SAMPLE_RATE as each draft sets it
SampleRateOf(v) ==
    IF v \in {"index", "copy"} THEN SAMPLE_RATE_16K ELSE SAMPLE_RATE_48K

\* Math.floor((SAMPLE_RATE * FRAME_DURATION_MS) / 1000)
FlooredSamplesPerFrame(rate, ms) == (rate * ms) \div 1000

\* (mutant) the frame duration is left out of the product
StreamSamplesUnscaled(rate, ms) == rate \div 1000

\* (SAMPLE_RATE / 1000) * FRAME_DURATION_MS, exact when 1000 divides the rate
StreamSamplesPerFrame(rate, ms) == (rate \div 1000) * ms

SamplesPerFrameFor(v, rate, ms) ==
    IF v = "stream" THEN StreamSamplesPerFrame(rate, ms)
    ELSE FlooredSamplesPerFrame(rate, ms)

SAMPLES_PER_FRAME == SamplesPerFrameFor(variant, sampleRate, frameDurationMs)

\* FRAME_SIZE_BYTES = SAMPLES_PER_FRAME * BYTES_PER_SAMPLE
FRAME_SIZE_BYTES == SAMPLES_PER_FRAME * BYTES_PER_SAMPLE

----------------------------------------------------------------------------
(* Typed-array semantics *)

\* two bytes, little-endian, read as a signed 16-bit integer
ToInt16(lo, hi) ==
    LET u == lo + 256 * hi IN IF u >= 32768 THEN u - 65536 ELSE u

\* ToIndex of a non-negative number given as twice its value: the integer part
ToIndexOfHalves(x2) == x2 \div 2

\* new Int16Array(buf.buffer, byteOffset, length): a view of `length` samples
\* starting at byte `byteOffset` (0-based) of the bytes `buf`.  The buffers of
\* the drafts wrap their ArrayBuffer at byteOffset 0 and the loops only use
\* even offsets, so the RangeError of an odd byteOffset does not arise.
Int16View(buf, byteOffset, length) ==
    [j \in 1..length |->
        ToInt16(buf[byteOffset + 2 * (j - 1) + 1], buf[byteOffset + 2 * (j - 1) + 2])]

\* buf.subarray(start, end): bounds as clamped by subarray
SubarrayEnd(len, end) == Min(end, len)

\* new AudioFrame(data, sampleRate, channels, samplesPerChannel); the declared
\* samples-per-channel is kept times two, exact for the halves that
\* pcmBuffer.length / 2 yields
AudioFrame(data, rate, channels, samplesPerChannelX2) ==
    [ data |-> data, sampleRate |-> rate, channels |-> channels,
      samplesPerChannelX2 |-> samplesPerChannelX2 ]

----------------------------------------------------------------------------
(* Inputs *)

\* byte i (1-based) of the input: sample j = (i-1) \div 2 gets low byte j mod 256
\* and a high byte that crosses 128, so samples are pairwise distinct and of
\* both signs
InputByte(i) ==
    LET j == (i - 1) \div 2
    IN  IF i % 2 = 1 THEN j % 256 ELSE ((j \div 256) + 127) % 256

InputBuffer(len) == [i \in 1..len |-> InputByte(i)]

\* the frame size in bytes that draft v derives from its own constants
SourceFrameBytes(v) ==
    SamplesPerFrameFor(v, SampleRateOf(v), FRAME_DURATION_MS) * BYTES_PER_SAMPLE

\* byte lengths around every frame boundary, and 80 bytes past one
BufferLengths(v) ==
    LET fsb == SourceFrameBytes(v)
    IN  { n \in 0..(MaxFrames * fsb + 80) :
            /\ n % fsb \in {0, 1, 2, 3, 80, fsb - 2, fsb - 1}
            \* an Int16Array holds whole samples only
            /\ (v = "stream" => n % 2 = 0) }

----------------------------------------------------------------------------
(* The framing loops *)

\* (mutant) the loop runs once more at the end of the buffer
ByteLoopCondInclusive(off, buf) == off <= Len(buf)

\* index.js / part_005: while (offset < pcmBuffer.length), offset in bytes
ByteLoopCond(off, buf) == off < Len(buf)

\* (mutant) the loop continues from the offset it started at
ByteEndOffsetStuck(off, buf, fsb) == off

\* const endOffset = Math.min(offset + FRAME_SIZE_BYTES, pcmBuffer.length)
ByteEndOffset(off, buf, fsb) == Min(off + fsb, Len(buf))

\* frameBytes = pcmBuffer.subarray(offset, endOffset);
\* int16Data = new Int16Array(frameBytes.buffer, frameBytes.byteOffset,
\*                            frameBytes.length / BYTES_PER_SAMPLE);
\* new AudioFrame(int16Data, SAMPLE_RATE, NUM_CHANNELS, int16Data.length)
ByteFrame(off, end, buf, rate) ==
    LET frameBytesLength == SubarrayEnd(Len(buf), end) - SubarrayEnd(Len(buf), off)
        int16Data == Int16View(buf, off, ToIndexOfHalves(frameBytesLength))
    IN  AudioFrame(int16Data, rate, NUM_CHANNELS, 2 * Len(int16Data))

\* part_003 / part_001 playPcmAsFrames: totalSamples = pcmBuffer.length / 2 and
\* while (offset < totalSamples); off2 is twice the offset in samples
CopyLoopCond(off2, buf) == off2 < Len(buf)

\* frameSamples = Math.min(SAMPLES_PER_FRAME, totalSamples - offset), times two
CopyFrameSamplesX2(off2, buf, spf) == Min(2 * spf, Len(buf) - off2)

\* (mutant) the copy reads pcmView[i] instead of pcmView[offset + i]
CopyFrameNoOffset(off2, fs2, buf, rate) ==
    LET pcmView == Int16View(buf, 0, ToIndexOfHalves(Len(buf)))
        frameData == [i \in 1..ToIndexOfHalves(fs2) |-> pcmView[i]]
    IN  AudioFrame(frameData, rate, NUM_CHANNELS, fs2)

\* pcmView = new Int16Array(pcmBuffer.buffer, pcmBuffer.byteOffset, totalSamples);
\* frameData = new Int16Array(frameSamples);
\* for (i = 0; i < frameSamples; i++) frameData[i] = pcmView[offset + i];
\* new AudioFrame(frameData, SAMPLE_RATE, NUM_CHANNELS, frameSamples)
CopyFrame(off2, fs2, buf, rate) ==
    LET viewLen == ToIndexOfHalves(Len(buf))
        pcmView == Int16View(buf, 0, viewLen)
        \* an index that is no whole number, or past the view, reads undefined,
        \* which an Int16Array stores as 0
        Read(i) == IF off2 % 2 = 0 /\ (off2 \div 2) + i <= viewLen
                   THEN pcmView[(off2 \div 2) + i] ELSE 0
        frameData == [i \in 1..ToIndexOfHalves(fs2) |-> Read(i)]
    IN  AudioFrame(frameData, rate, NUM_CHANNELS, fs2)

\* streamPcmToLivekit: pcm is an Int16Array over the bytes `buf`, offset in
\* samples; pcm.length
StreamPcmLength(buf) == Len(buf) \div 2

\* while (offset < pcm.length)
StreamLoopCond(off, buf) == off < StreamPcmLength(buf)

\* (mutant) the stream loop advances by half the nominal size, rounded up
StreamEndHalf(off, spf) == off + (spf + 1) \div 2

\* const end = offset + SAMPLES_PER_FRAME
StreamEnd(off, spf) == off + spf

\* frameSamples = pcm.subarray(offset, end): a view of the same bytes from
\* sample `offset` up to `end`, both clamped to pcm.length;
\* new AudioFrame(frameSamples, SAMPLE_RATE, CHANNELS, frameSamples.length)
StreamFrame(off, end, buf, rate) ==
    LET from == SubarrayEnd(StreamPcmLength(buf), off)
        to == SubarrayEnd(StreamPcmLength(buf), end)
        data == Int16View(buf, BYTES_PER_SAMPLE * from,
                          IF to > from THEN to - from ELSE 0)
    IN  AudioFrame(data, rate, NUM_CHANNELS, 2 * Len(data))

\* generateSinePcmInt16(FREQUENCY_HZ, DURATION_SEC, SAMPLE_RATE): an Int16Array
\* of Math.floor(durationSec * sampleRate) samples, of which the model keeps
\* the first MaxToneSamples (the sample values are stood in for by the input
\* pattern)
GenerateSinePcmInt16(durationSec, rate) ==
    LET totalSamples == Min(durationSec * rate, MaxToneSamples)
    IN  Int16View(InputBuffer(2 * totalSamples), 0, totalSamples)

----------------------------------------------------------------------------
(* One playback call *)

Count(seq, e) == Cardinality({i \in 1..Len(seq) : seq[i] = e})

\* captureFrame calls made so far
NumCalls(ev) == Count(ev, "captureFrame")

\* the loop condition of the running draft
LoopCond(off) ==
    CASE variant \in ByteVariants -> ByteLoopCond(off, pcmBuffer)
      [] variant = "copy" -> CopyLoopCond(off, pcmBuffer)
      [] OTHER -> StreamLoopCond(off, pcmBuffer)

\* (mutant) the promise of captureFrame is not awaited: the loop goes straight
\* to its sleep
CaptureFrameNotAwaited == "sleep"

\* `await audioSource.captureFrame(frame)`: the function is suspended until
\* the promise of captureFrame settles
AwaitCaptureFrame == "capture"

\* (mutant) the iteration clears the bytes it has framed
PcmConsumed(buf, from, to) ==
    [i \in 1..Len(buf) |-> IF from < i /\ i <= to THEN 0 ELSE buf[i]]

\* the bytes of pcmBuffer after the iteration over bytes from+1..to has built
\* its frame: subarray and new Int16Array(buffer, byteOffset, length) make
\* views and store nothing, and the copying loop stores into its own new
\* frameData
PcmAfterFrame(buf, from, to) == buf

\* the loop head reached with offset `off` after the calls `ev`: either one
\* more iteration up to its `await audioSource.captureFrame(frame)`, or the
\* end of the function
EnterLoop(off, ev) ==
    /\ LoopCond(off) => NumCalls(ev) < MaxCalls
    /\ offset' = off
    /\ IF LoopCond(off)
       THEN LET end == CASE variant \in ByteVariants ->
                              ByteEndOffset(off, pcmBuffer, FRAME_SIZE_BYTES)
                         [] variant = "stream" -> StreamEnd(off, SAMPLES_PER_FRAME)
                         [] OTHER -> endOffset
                fs2 == IF variant = "copy"
                       THEN CopyFrameSamplesX2(off, pcmBuffer, SAMPLES_PER_FRAME)
                       ELSE frameSamples
                frame == CASE variant \in ByteVariants ->
                                ByteFrame(off, end, pcmBuffer, sampleRate)
                           [] variant = "copy" ->
                                CopyFrame(off, fs2, pcmBuffer, sampleRate)
                           [] OTHER -> StreamFrame(off, end, pcmBuffer, sampleRate)
                \* the bytes the frame covers
                from == IF variant = "stream" THEN BYTES_PER_SAMPLE * off ELSE off
                to == CASE variant \in ByteVariants -> end
                        [] variant = "copy" -> off + fs2
                        [] OTHER -> BYTES_PER_SAMPLE * end
            IN  /\ endOffset' = end
                /\ frameSamples' = fs2
                /\ inFlight' = Append(inFlight, frame)
                /\ pcmBuffer' = PcmAfterFrame(pcmBuffer, from, to)
                /\ events' = Append(ev, "captureFrame")
                /\ pc' = AwaitCaptureFrame
       ELSE /\ events' = ev
            /\ pc' = "done"
            /\ UNCHANGED << endOffset, frameSamples, inFlight, pcmBuffer >>

\* if (!pcmBuffer || pcmBuffer.length === 0) { warn; return; }
EmptyGuard(buf) == Len(buf) = 0

\* (mutant) an empty buffer is thrown as an error
EmptyThrows == "failed"

\* the `return` of the empty-buffer guard: the function completes normally
EmptyReturn == "done"

\* (mutant) a rejected delivery is caught inside the loop, which carries on
RejectionSwallowed == "sleep"

\* a rejected captureFrame is not caught in the function: its promise rejects
RejectionPropagates == "failed"

\* (mutant) the loop goes on from the offset the call before it ended with
LoopStartKept(last) == last

\* `let offset = 0;`: each call starts its own offset, whatever the offset
\* `last` of an earlier call was
LoopStart(last) == 0

\* playPcmAsFrames(audioSource, pcmBuffer) / streamPcmToLivekit(pcm) is called
PlayCall ==
    /\ pc = "start"
    /\ variant \in PlayVariants
    /\ IF variant # "stream" /\ EmptyGuard(pcmBuffer)
       THEN /\ pc' = EmptyReturn
            /\ UNCHANGED << offset, endOffset, frameSamples, inFlight, events,
                            pcmBuffer >>
       ELSE EnterLoop(LoopStart(offset), events)
    /\ UNCHANGED << variant, sampleRate, frameDurationMs, delivered, otherServed >>
    /\ UNCHANGED outerVars

\* the sink accepts the frame; the loop goes on to its pacing sleep
\* (the copying loop advances its offset before the sleep)
CaptureResolved ==
    /\ pc = "capture"
    /\ inFlight # << >>
    /\ delivered' = Append(delivered, Head(inFlight))
    /\ inFlight' = Tail(inFlight)
    /\ offset' = IF variant = "copy" THEN offset + frameSamples ELSE offset
    /\ events' = events \o << "captured", "sleep" >>
    /\ pc' = "sleep"
    /\ UNCHANGED << variant, sampleRate, frameDurationMs, pcmBuffer, endOffset,
                    frameSamples, otherServed >>
    /\ UNCHANGED outerVars

\* the sink rejects the frame: the await throws, nothing in the function
\* catches it, and the function's promise rejects
CaptureRejected ==
    /\ pc = "capture"
    /\ inFlight # << >>
    /\ inFlight' = Tail(inFlight)
    /\ events' = Append(events, "rejected")
    /\ pc' = RejectionPropagates
    /\ UNCHANGED << variant, sampleRate, frameDurationMs, pcmBuffer, offset,
                    endOffset, frameSamples, delivered, otherServed >>
    /\ UNCHANGED outerVars

\* the pacing timer fires; the byte loop and the stream loop set
\* offset = endOffset after the sleep
SleepElapsed ==
    /\ pc = "sleep"
    /\ EnterLoop(IF variant = "copy" THEN offset ELSE endOffset,
                 Append(events, "woke"))
    /\ UNCHANGED << variant, sampleRate, frameDurationMs, delivered, otherServed >>
    /\ UNCHANGED outerVars

----------------------------------------------------------------------------
(* runTestAgentSession of part_003 *)

TestTryAwaits ==
    {"t_connect", "t_publish", "t_capture", "t_close", "t_disconnect", "t_dispose"}
TestCleanupAwaits == {"t_cleanup_disconnect", "t_cleanup_dispose"}

\* const room = new Room(); await room.connect(...)
TestCall ==
    /\ pc = "start"
    /\ variant = "test"
    /\ events' = Append(events, "connect")
    /\ pc' = "t_connect"
    /\ UNCHANGED << variant, sampleRate, frameDurationMs, pcmBuffer, offset,
                    endOffset, frameSamples, inFlight, delivered, otherServed >>
    /\ UNCHANGED outerVars

\* the frame of the whole tone: new AudioFrame(pcm, SAMPLE_RATE, 1, pcm.length)
TestFrame(rate) ==
    LET pcm == GenerateSinePcmInt16(TEST_DURATION_SEC, rate)
    IN  AudioFrame(pcm, rate, 1, 2 * Len(pcm))

\* the call made after the await at `at` resolved, and the await it leads to
TestNext(at) ==
    CASE at = "t_connect" -> << "publishTrack", "t_publish" >>
      [] at = "t_publish" -> << "captureFrame", "t_capture" >>
      [] at = "t_capture" -> << "sleep", "t_sleep" >>
      [] at = "t_sleep" -> << "track.close", "t_close" >>
      [] at = "t_close" -> << "disconnect", "t_disconnect" >>
      [] at = "t_disconnect" -> << "dispose", "t_dispose" >>
      [] at = "t_cleanup_disconnect" -> << "dispose", "t_cleanup_dispose" >>
      [] OTHER -> << "end", "done" >>

\* an awaited promise of the session resolves
TestResolved ==
    /\ pc \in TestTryAwaits \cup TestCleanupAwaits \cup {"t_sleep"}
    /\ LET next == TestNext(pc)
       IN  /\ pc' = next[2]
           /\ events' = IF next[1] = "end" THEN events ELSE Append(events, next[1])
    /\ inFlight' = CASE pc = "t_publish" -> Append(inFlight, TestFrame(sampleRate))
                     [] pc = "t_capture" -> Tail(inFlight)
                     [] OTHER -> inFlight
    /\ delivered' = IF pc = "t_capture" THEN Append(delivered, Head(inFlight))
                    ELSE delivered
    /\ UNCHANGED << variant, sampleRate, frameDurationMs, pcmBuffer, offset,
                    endOffset, frameSamples, otherServed >>
    /\ UNCHANGED outerVars

\* an awaited promise inside the try block rejects: catch, then cleanup
TestRejected ==
    /\ pc \in TestTryAwaits
    /\ inFlight' = IF pc = "t_capture" THEN Tail(inFlight) ELSE inFlight
    /\ events' = events \o << "rejected", "disconnect" >>
    /\ pc' = "t_cleanup_disconnect"
    /\ UNCHANGED << variant, sampleRate, frameDurationMs, pcmBuffer, offset,
                    endOffset, frameSamples, delivered, otherServed >>
    /\ UNCHANGED outerVars

\* the cleanup itself rejects: logged, and the function ends
TestCleanupRejected ==
    /\ pc \in TestCleanupAwaits
    /\ events' = Append(events, "rejected")
    /\ pc' = "done"
    /\ UNCHANGED << variant, sampleRate, frameDurationMs, pcmBuffer, offset,
                    endOffset, frameSamples, inFlight, delivered, otherServed >>
    /\ UNCHANGED outerVars

----------------------------------------------------------------------------
(* The session layer: POST /start-session and the task it starts.  Of each  *)
(* playback it keeps the number of frames still to deliver.                 *)

\* two requests in flight at once
Sessions == {1, 2}

\* frames one session's playback delivers at most (the 2 s test tone of
\* index.js is 100 frames; the model stops after this many)
MaxSessionFrames == 2

\* const USE_TEST_TONE = false;
USE_TEST_TONE == FALSE

Fields == {"livekitUrl", "roomName", "agentId", "agentToken"}

\* the request bodies: any of the fields present or missing
Bodies == SUBSET Fields

EnvOf(mode, key, url) ==
    [TTS_MODE |-> mode, ELEVENLABS_API_KEY |-> key, LIVEKIT_WS_URL |-> url]

\* the environments that make a difference to the draft
Envs(v) ==
    CASE v \in {"index", "part005"} ->
           {EnvOf("test", TRUE, TRUE), EnvOf("elevenlabs", TRUE, TRUE),
            EnvOf("elevenlabs", FALSE, TRUE)}
      [] v = "copy" -> {EnvOf("elevenlabs", k, TRUE) : k \in BOOLEAN}
      [] v = "stream" -> {EnvOf(mode, TRUE, TRUE) : mode \in {"test", "elevenlabs"}}
      [] OTHER -> {EnvOf("test", TRUE, u) : u \in BOOLEAN}

IdleSession ==
    [at |-> "idle",         \* position of the request's task
     body |-> {},           \* fields present in the request body
     response |-> "none",   \* HTTP response sent last: none, ok, 400, 500
     sent |-> 0,            \* responses sent (res.json / res.status().json)
     tts |-> "none",        \* how ttsElevenLabs ended: nokey, non2xx, threw, ok
     pcm |-> "unset",       \* `pcm` of the task: unset, null, buffer
     left |-> 0,            \* frames of pcm not yet handed to the sink
     log |-> << >>,         \* what the task did, in order
     cancelled |-> FALSE]   \* the caller has disconnected

\* part_001 (second draft) has one module-level `audioSource`, number 0 here;
\* every other draft creates `new AudioSource(...)` inside the call
SourceOf(v, s) == IF v = "stream" THEN 0 ELSE s

SourceIds == {SourceOf(v, s) : v \in Variants, s \in Sessions}

\* (mutant) the routes do not look at agentToken
ValidateWithoutToken(v, body, e) ==
    CASE v = "stream" -> IF "roomName" \notin body THEN "400" ELSE "pass"
      [] v = "test" -> IF ~e.LIVEKIT_WS_URL THEN "500" ELSE "pass"
      [] v = "copy" ->
           IF ~({"roomName", "agentId"} \subseteq body) THEN "400" ELSE "pass"
      [] OTHER ->
           IF ~({"livekitUrl", "roomName", "agentId"} \subseteq body) THEN "400"
           ELSE "pass"

\* res.json(...) / res.status(...).json(...)
Respond(ses, r) == [ses EXCEPT !.response = r, !.sent = @ + 1]

\* the validation of the route: the response it returns at once, or "pass"
Validate(v, body, e) ==
    CASE v \in {"index", "part005"} ->
           IF ~({"livekitUrl", "roomName", "agentId"} \subseteq body) THEN "400"
           ELSE IF "agentToken" \notin body THEN "ok"
           ELSE "pass"
      [] v = "copy" ->
           IF ~({"roomName", "agentId"} \subseteq body) THEN "400"
           ELSE IF "agentToken" \notin body THEN "400"
           ELSE "pass"
      [] v = "stream" ->
           IF ~({"agentToken", "roomName"} \subseteq body) THEN "400" ELSE "pass"
      [] OTHER ->
           IF ~e.LIVEKIT_WS_URL THEN "500"
           ELSE IF "agentToken" \notin body THEN "400"
           ELSE "pass"

\* what the route has answered when the task is at its first await:
\* `startAgent({...}); res.json({ ok: true, ... })` answers in the same turn,
\* the handler of part_001 answers only after `await streamPcmToLivekit(pcm)`
ResponseAtStart(v) == IF v = "stream" THEN "none" ELSE "ok"

\* (mutant) nothing catches the error: the promise of the task rejects
Uncaught(v, ses) == [ses EXCEPT !.at = "rejected"]

\* the catch block at the boundary of the task:
\*   startAgent          catch (err) { console.error(...) }
\*   handler (part_001)  catch (err) { res.status(500).json(...) }
\*   runTestAgentSession catch (err) { log; try { disconnect; dispose } ... }
Caught(v, ses) ==
    CASE v = "stream" ->
           Respond([ses EXCEPT !.at = "resolved",
                               !.log = Append(@, "error_logged")], "500")
      [] v = "test" ->
           [ses EXCEPT !.at = "t_cleanup_disconnect",
                       !.log = @ \o << "error_logged", "disconnect" >>]
      [] OTHER ->
           [ses EXCEPT !.at = "resolved", !.log = Append(@, "error_logged")]

\* the task returns normally
Finished(v, ses) ==
    IF v = "stream" THEN Respond([ses EXCEPT !.at = "resolved"], "ok")
    ELSE [ses EXCEPT !.at = "resolved"]

\* the loop head of playPcmAsFrames / streamPcmToLivekit with ses.left frames
\* to go: one more captureFrame, or the end of the playback and of the task
Playback(v, ses) ==
    IF ses.left > 0
    THEN [ses EXCEPT !.at = "capture", !.log = Append(@, "captureFrame")]
    ELSE Finished(v, ses)

\* ttsElevenLabs returns null and startAgent returns at
\* `if (!pcm) { console.warn(...); return; }`
SkipPlayback(v, ses, why) ==
    [ses EXCEPT !.tts = why, !.pcm = "null", !.at = "resolved",
                !.log = Append(@, "no_pcm")]

\* (mutant) ttsElevenLabs lets the error through to startAgent
TtsRethrows(v, ses) == Caught(v, [ses EXCEPT !.tts = "threw"])

\* catch (err) { console.error(...); return null; } of ttsElevenLabs
TtsCatch(v, ses) ==
    SkipPlayback(v, [ses EXCEPT !.log = Append(@, "tts_error")], "threw")

\* startAgent after publishTrack resolved: the test tone, or ttsElevenLabs up
\* to its fetch
ChoosePcm(v, e, ses) ==
    IF (IF v = "copy" THEN USE_TEST_TONE ELSE e.TTS_MODE = "test")
    THEN Playback(v, [ses EXCEPT !.pcm = "buffer", !.left = MaxSessionFrames])
    ELSE IF ~e.ELEVENLABS_API_KEY THEN SkipPlayback(v, ses, "nokey")
    ELSE [ses EXCEPT !.at = "tts_fetch", !.log = Append(@, "fetch")]

\* (mutant) startAgent plays without publishing its track
ConnectedNoPublish(v, e, ses) ==
    ChoosePcm(v, e, [ses EXCEPT !.log = Append(@, "connected")])

\* after `await room.connect(...)` resolved: startAgent goes on to publishTrack,
\* the handler of part_001 to its test tone or to its answer
Connected(v, e, ses) ==
    IF v = "stream"
    THEN IF e.TTS_MODE = "test"
         THEN Playback(v, [ses EXCEPT !.log = Append(@, "connected"),
                                      !.pcm = "buffer", !.left = MaxSessionFrames])
         ELSE Finished(v, [ses EXCEPT !.log = Append(@, "connected")])
    ELSE [ses EXCEPT !.at = "publish",
                     !.log = @ \o << "connected", "publishTrack" >>]

\* the session after the promise it awaits has resolved; `ok2xx` is
\* response.ok of the ElevenLabs answer and n the frames of its audio
AfterResolve(v, e, ses, ok2xx, n) ==
    CASE v = "test" ->
           LET next == TestNext(ses.at)
           IN  [ses EXCEPT !.at = IF next[2] = "done" THEN "resolved" ELSE next[2],
                           !.left = IF ses.at = "t_publish" THEN 1
                                    ELSE IF ses.at = "t_capture" THEN 0 ELSE @,
                           !.pcm = "buffer",
                           !.log = IF next[1] = "end" THEN @ ELSE Append(@, next[1])]
      [] ses.at = "connect" -> Connected(v, e, ses)
      [] ses.at = "publish" ->
           ChoosePcm(v, e, [ses EXCEPT !.log = Append(@, "published")])
      [] ses.at = "tts_fetch" ->
           IF ok2xx THEN [ses EXCEPT !.at = "tts_body"]
           ELSE [ses EXCEPT !.at = "tts_text"]
      [] ses.at = "tts_text" -> SkipPlayback(v, ses, "non2xx")
      [] ses.at = "tts_body" ->
           Playback(v, [ses EXCEPT !.tts = "ok", !.pcm = "buffer", !.left = n])
      [] ses.at = "capture" ->
           [ses EXCEPT !.at = "sleep", !.left = @ - 1,
                       !.log = @ \o << "captured", "sleep" >>]
      [] OTHER -> Playback(v, ses)

\* the session after the promise it awaits has rejected
AfterReject(v, e, ses) ==
    LET failed == [ses EXCEPT !.log = Append(@, "rejected")]
    IN  CASE ses.at \in {"tts_fetch", "tts_text", "tts_body"} -> TtsCatch(v, failed)
          [] ses.at \in TestCleanupAwaits ->
               [failed EXCEPT !.at = "resolved", !.log = Append(@, "cleanup_error")]
          [] OTHER -> Caught(v, failed)

Awaiting(ses) == ses.at \notin {"idle", "returned", "resolved", "rejected"}

\* a timer always fires; every other awaited promise may reject
MayReject(ses) == Awaiting(ses) /\ ses.at \notin {"sleep", "t_sleep"}

\* a rejected promise of the task is handled by
\* process.on("unhandledRejection", ...) in index.js, part_005 and the second
\* draft of part_003, and by .catch(...) at the call of runTestAgentSession;
\* the handler of part_001 registers nothing
RejectionHandled(v) == v # "stream"

\* the rest of the state after session s has become `new`: a captureFrame
\* call puts the frame on the AudioSource of the call; a rejected promise
\* that nothing handles ends the process
Becomes(s, new) ==
    /\ sessions' = [sessions EXCEPT ![s] = new]
    /\ sources' =
         IF NumCalls(new.log) > NumCalls(sessions[s].log)
         THEN [sources EXCEPT ![SourceOf(variant, s)] = Append(@, s)]
         ELSE sources
    /\ processUp' = (processUp /\ (new.at = "rejected" => RejectionHandled(variant)))
    /\ UNCHANGED << variant, sampleRate, frameDurationMs, env, playVars,
                    httpVars >>

\* POST /start-session arrives: the route runs up to its answer or, in
\* part_001's handler, up to `await room.connect(wsUrl)`
StartSession(s) ==
    /\ sessions[s].at = "idle"
    /\ \E body \in Bodies :
         LET verdict == Validate(variant, body, env)
             ses == [sessions[s] EXCEPT !.body = body]
             started == [ses EXCEPT
                           !.at = IF variant = "test" THEN "t_connect"
                                  ELSE "connect",
                           !.log = << "connect" >>]
         IN  Becomes(s, IF verdict # "pass"
                        THEN Respond([ses EXCEPT !.at = "returned"], verdict)
                        ELSE IF ResponseAtStart(variant) = "none" THEN started
                        ELSE Respond(started, ResponseAtStart(variant)))

\* the promise session s awaits resolves
AwaitResolved(s) ==
    /\ Awaiting(sessions[s])
    /\ \E ok2xx \in (IF sessions[s].at = "tts_fetch" THEN BOOLEAN ELSE {TRUE}),
          n \in (IF sessions[s].at = "tts_body" THEN 0..MaxSessionFrames ELSE {0}) :
         Becomes(s, AfterResolve(variant, env, sessions[s], ok2xx, n))

\* the promise session s awaits rejects
AwaitRejected(s) ==
    /\ MayReject(sessions[s])
    /\ Becomes(s, AfterReject(variant, env, sessions[s]))

\* the caller of session s leaves while its task runs; no draft registers a
\* handler that would stop the task
CallerDisconnects(s) ==
    /\ Awaiting(sessions[s])
    /\ ~sessions[s].cancelled
    /\ sessions' = [sessions EXCEPT ![s].cancelled = TRUE]
    /\ UNCHANGED << variant, sampleRate, frameDurationMs, env, sources,
                    processUp, playVars, httpVars >>

----------------------------------------------------------------------------
(* The edge function that calls the worker: GET /health, then POST         *)
(* /start-session, each under an AbortController armed by setTimeout       *)

EdgeRequests == {1, 2}

\* statuses the worker answers GET /health and POST /start-session with
HealthStatuses == {200, 503}
StartStatuses == {200, 400, 404, 500, 503}

\* Response.ok
ResponseOk(status) == status \in 200..299

\* no request has arrived
IdleEdge ==
    [at |-> "idle", method |-> "", healthTimeout |-> "unset",
     startTimeout |-> "unset", healthStatus |-> 0, healthErrorClass |-> "",
     startHttpStatus |-> 0, startErrorClass |-> "", sent |-> 0, status |-> 0,
     ok |-> FALSE, errorClass |-> ""]

\* the response to a preflight request
PreflightResponse(e) ==
    [e EXCEPT !.at = "responded", !.sent = @ + 1, !.status = 200]

\* the HTTP status of the edge response
EdgeStatus(errorClass, startHttpStatus) ==
    IF errorClass # "" /\ startHttpStatus >= 500 THEN 502
    ELSE IF errorClass # "" /\ startHttpStatus >= 400 THEN startHttpStatus
    ELSE 200

\* startErrorClass || healthErrorClass
ErrorClassOf(startErrorClass, healthErrorClass) ==
    IF startErrorClass # "" THEN startErrorClass ELSE healthErrorClass

\* error classification and the response
EdgeRespond(e) ==
    LET errorClass == ErrorClassOf(e.startErrorClass, e.healthErrorClass)
    IN  [e EXCEPT !.at = "responded",
                  !.sent = @ + 1,
                  !.ok = (errorClass = ""),
                  !.errorClass = errorClass,
                  !.status = EdgeStatus(errorClass, e.startHttpStatus)]

\* phase 2 up to its fetch: the timer is armed and POST /start-session sent
StartPhase(e) ==
    [e EXCEPT !.at = "start_fetch", !.startTimeout = "armed"]

\* a phase 1 whose failure leaves the handler
HealthRethrows(e, aborted) ==
    [e EXCEPT !.at = "responded", !.sent = @ + 1, !.ok = FALSE,
              !.errorClass = "EDGE_UNHANDLED_ERROR", !.status = 500]

\* the catch of phase 1, and on to phase 2
HealthCatch(e, aborted) ==
    StartPhase([e EXCEPT !.healthErrorClass =
                   IF aborted THEN "WORKER_HEALTH_TIMEOUT"
                   ELSE "WORKER_HEALTH_NETWORK_ERROR"])

\* the body of /health was read, and on to phase 2
HealthRead(e) ==
    StartPhase([e EXCEPT !.healthErrorClass =
                   IF ResponseOk(e.healthStatus) THEN ""
                   ELSE "WORKER_HEALTH_HTTP_" \o ToString(e.healthStatus)])

\* the catch of phase 2, and the response
StartCatch(e, aborted) ==
    EdgeRespond([e EXCEPT !.startErrorClass =
                    IF aborted THEN "WORKER_START_TIMEOUT"
                    ELSE "WORKER_START_NETWORK_ERROR"])

\* the body of /start-session was read, and the response
StartRead(e) ==
    EdgeRespond([e EXCEPT !.startErrorClass =
                    IF ResponseOk(e.startHttpStatus) THEN ""
                    ELSE "WORKER_START_HTTP_" \o ToString(e.startHttpStatus)])

EdgeBecomes(r, new) ==
    /\ edgeReqs' = [edgeReqs EXCEPT ![r] = new]
    /\ UNCHANGED << variant, sampleRate, frameDurationMs, playVars,
                    sessionVars, tsWorker, fwdReqs >>

\* a request arrives: a preflight is answered at once, any other request
\* arms the /health timer and sends GET /health
EdgeRequest(r) ==
    /\ edgeReqs[r].at = "idle"
    /\ \E method \in {"OPTIONS", "POST"} :
         EdgeBecomes(r,
            IF method = "OPTIONS"
            THEN PreflightResponse([edgeReqs[r] EXCEPT !.method = method])
            ELSE [edgeReqs[r] EXCEPT !.method = method,
                                     !.at = "health_fetch",
                                     !.healthTimeout = "armed"])

\* the worker's /health status line and headers arrive: the timer is cleared
HealthHeaders(r) ==
    /\ edgeReqs[r].at = "health_fetch"
    /\ \E status \in HealthStatuses :
         EdgeBecomes(r, [edgeReqs[r] EXCEPT !.at = "health_body",
                                            !.healthStatus = status,
                                            !.healthTimeout = "cleared"])

\* the worker's /health body arrives whole
HealthBody(r) ==
    /\ edgeReqs[r].at = "health_body"
    /\ EdgeBecomes(r, HealthRead(edgeReqs[r]))

\* the connection of /health fails, before or after the headers
HealthFails(r) ==
    /\ edgeReqs[r].at \in {"health_fetch", "health_body"}
    /\ EdgeBecomes(r, HealthCatch(edgeReqs[r], FALSE))

\* the /health timer fires: the controller aborts a fetch that is pending
HealthTimeout(r) ==
    /\ edgeReqs[r].healthTimeout = "armed"
    /\ LET e == [edgeReqs[r] EXCEPT !.healthTimeout = "fired"]
       IN  EdgeBecomes(r, IF e.at = "health_fetch" THEN HealthCatch(e, TRUE)
                          ELSE e)

\* the worker's /start-session status line and headers arrive
StartHeaders(r) ==
    /\ edgeReqs[r].at = "start_fetch"
    /\ \E status \in StartStatuses :
         EdgeBecomes(r, [edgeReqs[r] EXCEPT !.at = "start_body",
                                            !.startHttpStatus = status,
                                            !.startTimeout = "cleared"])

\* the worker's /start-session body arrives whole
StartBody(r) ==
    /\ edgeReqs[r].at = "start_body"
    /\ EdgeBecomes(r, StartRead(edgeReqs[r]))

\* the connection of /start-session fails, before or after the headers
StartFails(r) ==
    /\ edgeReqs[r].at \in {"start_fetch", "start_body"}
    /\ EdgeBecomes(r, StartCatch(edgeReqs[r], FALSE))

\* the /start-session timer fires
StartTimeout(r) ==
    /\ edgeReqs[r].startTimeout = "armed"
    /\ LET e == [edgeReqs[r] EXCEPT !.startTimeout = "fired"]
       IN  EdgeBecomes(r, IF e.at = "start_fetch" THEN StartCatch(e, TRUE)
                          ELSE e)

----------------------------------------------------------------------------
(* The TypeScript worker: x-worker-secret, normalisation, background stub  *)

TsRequests == {1}

\* a header or environment variable: absent, empty, or one of two values
Secrets == {"undefined", "", "s1", "s2"}

BodyFields == {"agentId", "roomName", "agentConfig", "livekitUrl",
               "livekit_url", "wsUrl"}

\* a JavaScript value that an `if` or `&&` takes as true
Truthy(x) == x \notin {"undefined", ""}

IdleTs ==
    [at |-> "idle", header |-> "undefined", body |-> {}, missing |-> {},
     response |-> "", sent |-> 0, background |-> 0]

\* an auth check that lets a request without the header through
UnauthorizedUnlessAbsent(expectedSecret, headerSecret) ==
    Truthy(expectedSecret) /\ Truthy(headerSecret)
    /\ headerSecret # expectedSecret

\* the auth check of /start-session
Unauthorized(expectedSecret, headerSecret) ==
    Truthy(expectedSecret) /\ headerSecret # expectedSecret

\* the fields of the normalised session that are set
normaliseStartSessionBody(body, LIVEKIT_URL) ==
    (body \cap {"agentId", "roomName"})
    \cup {"agentConfig"}
    \cup (IF body \cap {"livekitUrl", "livekit_url", "wsUrl"} # {} \/ LIVEKIT_URL
          THEN {"livekitUrl"} ELSE {})

\* the fields the route warns about
MissingFields(session) ==
    {"agentId", "roomName", "agentConfig", "livekitUrl"} \ session

TsBecomes(r, new) ==
    /\ tsWorker' = [tsWorker EXCEPT !.reqs[r] = new]
    /\ UNCHANGED << variant, sampleRate, frameDurationMs, playVars,
                    sessionVars, edgeReqs, fwdReqs >>

\* POST /start-session arrives: the whole route runs, and the background
\* session up to its timer when it is started
TsStartSession(r) ==
    /\ tsWorker.reqs[r].at = "idle"
    /\ \E headerSecret \in Secrets, body \in SUBSET BodyFields :
         LET q == [tsWorker.reqs[r] EXCEPT !.header = headerSecret,
                                           !.body = body]
         IN  TsBecomes(r,
               IF Unauthorized(tsWorker.AGENT_WORKER_SECRET, headerSecret)
               THEN [q EXCEPT !.at = "returned", !.response = "401",
                              !.sent = @ + 1]
               ELSE [q EXCEPT !.at = "background",
                              !.missing = MissingFields(
                                  normaliseStartSessionBody(body,
                                      tsWorker.LIVEKIT_URL)),
                              !.background = @ + 1,
                              !.response = "ok",
                              !.sent = @ + 1])

\* the 500 ms timer of the background stub fires
TsBackgroundElapsed(r) ==
    /\ tsWorker.reqs[r].at = "background"
    /\ TsBecomes(r, [tsWorker.reqs[r] EXCEPT !.at = "returned"])

----------------------------------------------------------------------------
(* The forwarding worker: /start-session forwards to the Python agent      *)

FwdRequests == {1, 2}

\* statuses the Python agent answers POST /start with
PythonStatuses == {200, 404, 500}

IdleFwd ==
    [at |-> "idle", status |-> 0, data |-> "", response |-> "", sent |-> 0]

\* res.json({ ok: true })
Ack(q) == [q EXCEPT !.at = "returned", !.response = "ok", !.sent = @ + 1]

FwdBecomes(r, new) ==
    /\ fwdReqs' = [fwdReqs EXCEPT ![r] = new]
    /\ UNCHANGED << variant, sampleRate, frameDurationMs, playVars,
                    sessionVars, edgeReqs, tsWorker >>

\* POST /start-session arrives: the route runs up to its await of fetch
FwdStartSession(r) ==
    /\ fwdReqs[r].at = "idle"
    /\ FwdBecomes(r, [fwdReqs[r] EXCEPT !.at = "fetch"])

\* the Python agent's status line and headers arrive
FwdFetchResolved(r) ==
    /\ fwdReqs[r].at = "fetch"
    /\ \E status \in PythonStatuses :
         FwdBecomes(r, [fwdReqs[r] EXCEPT !.at = "json", !.status = status])

\* the call of the Python agent fails: the catch logs it
FwdFetchRejected(r) ==
    /\ fwdReqs[r].at = "fetch"
    /\ FwdBecomes(r, Ack([fwdReqs[r] EXCEPT !.data = "network_error"]))

\* the Python agent's body arrives, JSON or not
FwdJsonSettled(r) ==
    /\ fwdReqs[r].at = "json"
    /\ \E data \in {"json", "non_json_response"} :
         FwdBecomes(r, Ack([fwdReqs[r] EXCEPT !.data = data]))

\* no request has arrived at the other programs
InitHttp ==
    /\ edgeReqs = [r \in EdgeRequests |-> IdleEdge]
    /\ tsWorker = [AGENT_WORKER_SECRET |-> "undefined", LIVEKIT_URL |-> FALSE,
                   reqs |-> [r \in TsRequests |-> IdleTs]]
    /\ fwdReqs = [r \in FwdRequests |-> IdleFwd]

----------------------------------------------------------------------------

Suspended == pc \notin {"start", "done", "failed"}

\* while the playback is suspended the event loop serves another request
OtherRequest ==
    /\ Suspended
    /\ otherServed < MaxOther
    /\ otherServed' = otherServed + 1
    /\ UNCHANGED << variant, sampleRate, frameDurationMs, pcmBuffer, pc, offset,
                    endOffset, frameSamples, inFlight, delivered, events >>
    /\ UNCHANGED outerVars

InitRest ==
    /\ pcmBuffer \in
         IF variant = "test" THEN { << >> }
         ELSE { InputBuffer(n) : n \in BufferLengths(variant) }
    /\ pc = "start"
    /\ offset = 0
    /\ endOffset = 0
    /\ frameSamples = 0
    /\ inFlight = << >>
    /\ delivered = << >>
    /\ events = << >>
    /\ otherServed = 0
    /\ earlierRuns = << >>

\* no request has arrived
InitSessions ==
    /\ sessions = [s \in Sessions |-> IdleSession]
    /\ sources = [i \in SourceIds |-> << >>]
    /\ processUp = TRUE

Init ==
    /\ variant \in Variants
    /\ sampleRate = SampleRateOf(variant)
    /\ frameDurationMs = FRAME_DURATION_MS
    /\ InitRest
    /\ env = EnvOf("test", TRUE, TRUE)
    /\ InitSessions
    /\ InitHttp

Next ==
    \/ PlayCall
    \/ CaptureResolved
    \/ CaptureRejected
    \/ SleepElapsed
    \/ TestCall
    \/ TestResolved
    \/ TestRejected
    \/ TestCleanupRejected
    \/ OtherRequest

Spec == Init /\ [][Next]_vars

\* a sample rate (Hz) and a frame duration (ms) that derive 0 samples per frame
DegenerateFrameSpec == << 10, 1 >>

\* the same drafts with SAMPLE_RATE and FRAME_DURATION_MS also set to the
\* degenerate pair
InitCfg ==
    /\ variant \in Variants
    /\ \E cfg \in { << SampleRateOf(variant), FRAME_DURATION_MS >> }
                  \cup (IF variant \in {"index", "part005", "copy"}
                        THEN { DegenerateFrameSpec } ELSE {}) :
         /\ sampleRate = cfg[1]
         /\ frameDurationMs = cfg[2]
    /\ InitRest
    /\ env = EnvOf("test", TRUE, TRUE)
    /\ InitSessions
    /\ InitHttp

SpecCfg == InitCfg /\ [][Next]_vars

\* sample rates (Hz) and frame durations (ms) that derive 1 and 2 samples per
\* frame
SmallFrameSpecs == { << 1000, 1 >>, << 1000, 2 >> }

\* the playback loops with SAMPLE_RATE and FRAME_DURATION_MS set to a small
\* pair, and every buffer of up to MaxFrames frames and one byte
InitFair ==
    /\ variant \in PlayVariants
    /\ \E cfg \in SmallFrameSpecs :
         /\ sampleRate = cfg[1]
         /\ frameDurationMs = cfg[2]
         /\ pcmBuffer \in
              { InputBuffer(n) :
                  n \in { k \in 0..(MaxFrames * BYTES_PER_SAMPLE
                                      * FlooredSamplesPerFrame(cfg[1], cfg[2]) + 1) :
                             variant = "stream" => k % 2 = 0 } }
    /\ pc = "start"
    /\ offset = 0
    /\ endOffset = 0
    /\ frameSamples = 0
    /\ inFlight = << >>
    /\ delivered = << >>
    /\ events = << >>
    /\ otherServed = 0
    /\ earlierRuns = << >>
    /\ env = EnvOf("test", TRUE, TRUE)
    /\ InitSessions
    /\ InitHttp

NextPlay ==
    \/ PlayCall
    \/ CaptureResolved
    \/ CaptureRejected
    \/ SleepElapsed
    \/ OtherRequest

\* runs of the same buffer after the first
MaxReruns == 1

\* the playback has ended and the same buffer is played again (the next
\* /start-session plays the same greeting); the locals of the ended call are
\* left as they were
PlayAgain ==
    /\ pc \in {"done", "failed"}
    /\ variant \in PlayVariants
    /\ Len(earlierRuns) < MaxReruns
    /\ earlierRuns' = Append(earlierRuns, [pc |-> pc, delivered |-> delivered,
                                           otherServed |-> otherServed])
    /\ pc' = "start"
    /\ inFlight' = << >>
    /\ delivered' = << >>
    /\ events' = << >>
    /\ otherServed' = 0
    /\ UNCHANGED << variant, sampleRate, frameDurationMs, pcmBuffer, offset,
                    endOffset, frameSamples, sessionVars, httpVars >>

NextRerun ==
    \/ PlayCall
    \/ CaptureResolved
    \/ CaptureRejected
    \/ SleepElapsed
    \/ OtherRequest
    \/ PlayAgain

\* playbacks of one buffer, one after the other
SpecRerun == InitFair /\ [][NextRerun]_vars

\* one playback when the call is made, every captureFrame promise settles
\* and every setTimeout fires
SpecFair ==
    /\ InitFair
    /\ [][NextPlay]_vars
    /\ WF_vars(PlayCall)
    /\ WF_vars(CaptureResolved \/ CaptureRejected)
    /\ WF_vars(SleepElapsed)

\* the session layer: two requests to one worker process
InitSession ==
    /\ variant \in Variants
    /\ sampleRate = SampleRateOf(variant)
    /\ frameDurationMs = FRAME_DURATION_MS
    /\ pcmBuffer = << >>
    /\ pc = "start"
    /\ offset = 0
    /\ endOffset = 0
    /\ frameSamples = 0
    /\ inFlight = << >>
    /\ delivered = << >>
    /\ events = << >>
    /\ otherServed = 0
    /\ earlierRuns = << >>
    /\ env \in Envs(variant)
    /\ InitSessions
    /\ InitHttp

NextSession ==
    \E s \in Sessions :
        \/ StartSession(s)
        \/ AwaitResolved(s)
        \/ AwaitRejected(s)
        \/ CallerDisconnects(s)

SpecSession == InitSession /\ [][NextSession]_vars

\* the playback and session layers at rest
InitQuiet ==
    /\ variant = "index"
    /\ sampleRate = SampleRateOf(variant)
    /\ frameDurationMs = FRAME_DURATION_MS
    /\ pcmBuffer = << >>
    /\ pc = "start"
    /\ offset = 0
    /\ endOffset = 0
    /\ frameSamples = 0
    /\ inFlight = << >>
    /\ delivered = << >>
    /\ events = << >>
    /\ otherServed = 0
    /\ earlierRuns = << >>
    /\ env = EnvOf("test", TRUE, TRUE)
    /\ sessions = [s \in Sessions |-> IdleSession]
    /\ sources = [i \in SourceIds |-> << >>]
    /\ processUp = TRUE

\* the edge function: two requests, a worker that may answer, fail or stay
\* silent, and timers that fire unless they were cleared
InitEdge ==
    /\ InitQuiet
    /\ InitHttp

NextEdge ==
    \E r \in EdgeRequests :
        \/ EdgeRequest(r)
        \/ HealthHeaders(r)
        \/ HealthBody(r)
        \/ HealthFails(r)
        \/ HealthTimeout(r)
        \/ StartHeaders(r)
        \/ StartBody(r)
        \/ StartFails(r)
        \/ StartTimeout(r)

SpecEdge ==
    /\ InitEdge
    /\ [][NextEdge]_vars
    /\ \A r \in EdgeRequests :
         WF_vars(HealthTimeout(r)) /\ WF_vars(StartTimeout(r))

\* the TypeScript worker under every environment
InitTs ==
    /\ InitQuiet
    /\ edgeReqs = [r \in EdgeRequests |-> IdleEdge]
    /\ fwdReqs = [r \in FwdRequests |-> IdleFwd]
    /\ tsWorker \in [AGENT_WORKER_SECRET : {"undefined", "", "s1"},
                      LIVEKIT_URL : BOOLEAN,
                      reqs : {[r \in TsRequests |-> IdleTs]}]

NextTs ==
    \E r \in TsRequests :
        \/ TsStartSession(r)
        \/ TsBackgroundElapsed(r)

SpecTs == InitTs /\ [][NextTs]_vars

\* the forwarding worker: two requests and a Python agent that may answer,
\* fail or stay silent
NextFwd ==
    \E r \in FwdRequests :
        \/ FwdStartSession(r)
        \/ FwdFetchResolved(r)
        \/ FwdFetchRejected(r)
        \/ FwdJsonSettled(r)

SpecFwd == InitEdge /\ [][NextFwd]_vars

----------------------------------------------------------------------------
(* The frame sequence of one playback, as a function of its input *)

\* the next offset of the loop after the iteration at `off`
NextOffset(v, off, buf, spf) ==
    CASE v \in ByteVariants -> ByteEndOffset(off, buf, spf * BYTES_PER_SAMPLE)
      [] v = "copy" -> off + CopyFrameSamplesX2(off, buf, spf)
      [] OTHER -> StreamEnd(off, spf)

\* the frame of the iteration at `off`
FrameAt(v, off, buf, rate, spf) ==
    CASE v \in ByteVariants ->
           ByteFrame(off, ByteEndOffset(off, buf, spf * BYTES_PER_SAMPLE), buf, rate)
      [] v = "copy" -> CopyFrame(off, CopyFrameSamplesX2(off, buf, spf), buf, rate)
      [] OTHER -> StreamFrame(off, StreamEnd(off, spf), buf, rate)

RECURSIVE LoopFrames(_, _, _, _, _, _)
\* the frames the loop of draft v hands to the sink from offset `off` on,
\* while no delivery fails (at most `fuel` of them)
LoopFrames(v, off, buf, rate, spf, fuel) ==
    LET cond == CASE v \in ByteVariants -> ByteLoopCond(off, buf)
                  [] v = "copy" -> CopyLoopCond(off, buf)
                  [] OTHER -> StreamLoopCond(off, buf)
    IN  IF ~cond \/ fuel = 0 THEN << >>
        ELSE << FrameAt(v, off, buf, rate, spf) >>
             \o LoopFrames(v, NextOffset(v, off, buf, spf), buf, rate, spf, fuel - 1)

\* the frames playPcmAsFrames / streamPcmToLivekit of draft v hands to the
\* sink for the bytes `buf`
PlayedFrames(v, buf) ==
    IF v # "stream" /\ EmptyGuard(buf) THEN << >>
    ELSE LoopFrames(v, 0, buf, SampleRateOf(v),
                    SamplesPerFrameFor(v, SampleRateOf(v), FRAME_DURATION_MS), MaxCalls)

----------------------------------------------------------------------------
(* Vocabulary of the claims *)

PlayPcmVariants == {"index", "part005", "copy"}

\* whole samples of the buffer
TotalSamples == Len(pcmBuffer) \div 2

\* the buffer's samples, truncated to whole samples
BufferSamples == Int16View(pcmBuffer, 0, TotalSamples)

CeilDiv(n, k) == (n + k - 1) \div k

\* frame sizes of n samples cut into frames of k: ceil(n/k) frames, all of k
\* samples but the last, which has ((n-1) mod k) + 1
ExpectedSizes(n, k) ==
    [i \in 1..CeilDiv(n, k) |-> IF i < CeilDiv(n, k) THEN k ELSE ((n - 1) % k) + 1]

\* the samples of the i-th of those frames
ExpectedData(i, k) ==
    [t \in 1..ExpectedSizes(TotalSamples, k)[i] |-> BufferSamples[(i - 1) * k + t]]

Sizes(frames) == [i \in 1..Len(frames) |-> Len(frames[i].data)]

RECURSIVE Flatten(_)
Flatten(frames) ==
    IF frames = << >> THEN << >> ELSE frames[1].data \o Flatten(Tail(frames))

IsPrefix(s, t) == Len(s) <= Len(t) /\ \A i \in 1..Len(s) : s[i] = t[i]

\* every frame handed to captureFrame so far that was not rejected
Handed == delivered \o inFlight

\* C1: a buffer of n whole samples is delivered as ceil(n/k) frames, all of k
\* samples except the last, which has ((n-1) mod k) + 1: the frames handed to
\* the sink always have the first of these sizes, and all of them once the
\* playback has completed.
C1_FrameCountAndSizes ==
    (variant \in PlayPcmVariants /\ Len(pcmBuffer) % 2 = 0 /\ SAMPLES_PER_FRAME >= 1)
    => LET expected == ExpectedSizes(TotalSamples, SAMPLES_PER_FRAME)
       IN  /\ IsPrefix(Sizes(Handed), expected)
           /\ pc = "done" => Sizes(delivered) = expected

C1_Witness ==
    /\ variant = "index"
    /\ Len(pcmBuffer) = 2000
    /\ SAMPLES_PER_FRAME = 320
    /\ pc = "done"
    /\ Sizes(delivered) = << 320, 320, 320, 40 >>

\* C2: the samples of the frames handed to the sink, concatenated in delivery
\* order, are always the leading samples of the buffer, and at completion they
\* are exactly the buffer's whole samples, floor(byteLength / 2) of them.
C2_Conservation ==
    variant \in PlayVariants
    => /\ IsPrefix(Flatten(Handed), BufferSamples)
       /\ pc = "done" => /\ Flatten(delivered) = BufferSamples
                         /\ Len(Flatten(delivered)) = Len(pcmBuffer) \div 2

C2_Witness ==
    /\ variant = "copy"
    /\ Len(pcmBuffer) % 2 = 1
    /\ pc = "done"
    /\ Len(delivered) >= 3
    /\ Len(Flatten(delivered)) = TotalSamples

\* C3: playing 2m+1 bytes hands the sink the very frames that playing the
\* first 2m bytes does (same count, sizes, samples and declared sample counts).
C3_OddSameAsEven ==
    (variant \in PlayPcmVariants /\ Len(pcmBuffer) % 2 = 1 /\ pc = "done")
    => delivered = PlayedFrames(variant, SubSeq(pcmBuffer, 1, Len(pcmBuffer) - 1))

\* C4: no frame handed to the sink is empty.
C4_NoEmptyFrame ==
    variant \in PlayPcmVariants
    => \A i \in 1..Len(Handed) : Len(Handed[i].data) >= 1

\* C5: every frame handed to a sink, in every draft, has at most the nominal
\* number of samples of one 20 ms slot, and fewer only if it ends its buffer.
C5_FrameAtMostNominal ==
    \A i \in 1..Len(Handed) :
        /\ Len(Handed[i].data) <= SAMPLES_PER_FRAME
        /\ (variant \in PlayVariants /\ Len(Handed[i].data) < SAMPLES_PER_FRAME)
           => /\ i = Len(Handed)
              /\ Len(Flatten(Handed)) = TotalSamples

C7_EmptyBuffer ==
    (variant \in PlayPcmVariants /\ Len(pcmBuffer) = 0 /\ pc # "start")
    => /\ pc = "done"
       /\ events = << >>
       /\ delivered = << >>
       /\ inFlight = << >>

C7_Witness ==
    /\ variant = "index"
    /\ Len(pcmBuffer) = 0
    /\ pc = "done"

\* the calls of n paced deliveries that all succeed
PacedRun(n) ==
    [i \in 1..(4 * n) |->
        CASE i % 4 = 1 -> "captureFrame"
          [] i % 4 = 2 -> "captured"
          [] i % 4 = 3 -> "sleep"
          [] OTHER -> "woke"]

\* C8: a completed playback of a buffer of N frames made exactly N captureFrame
\* calls, in buffer order, each followed by one pacing sleep, N sleeps in all.
C8_ExactlyNPaced ==
    (variant \in PlayPcmVariants /\ pc = "done")
    => LET N == CeilDiv(TotalSamples, SAMPLES_PER_FRAME)
       IN  /\ NumCalls(events) = N
           /\ Count(events, "sleep") = N
           /\ events = PacedRun(N)
           /\ Len(delivered) = N
           /\ \A i \in 1..N : delivered[i].data = ExpectedData(i, SAMPLES_PER_FRAME)

\* C9: a rejected delivery ends the playback: it is the last thing the call
\* did, the frames before it were delivered and paced, the rejected frame was
\* tried once, and the call fails.
C9_FailureAborts ==
    variant \in PlayPcmVariants
    => /\ \A i \in 1..Len(events) :
             events[i] = "rejected" => (i = Len(events) /\ pc = "failed")
       /\ pc = "failed"
          => LET j == NumCalls(events)
                 N == CeilDiv(TotalSamples, SAMPLES_PER_FRAME)
             IN  /\ events = PacedRun(j - 1) \o << "captureFrame", "rejected" >>
                 /\ inFlight = << >>
                 /\ Len(delivered) = j - 1
                 /\ Count(events, "sleep") = j - 1
                 /\ j <= N => \A i \in 1..(j - 1) :
                                delivered[i].data = ExpectedData(i, SAMPLES_PER_FRAME)

C9_Witness ==
    /\ variant = "index"
    /\ pc = "failed"
    /\ NumCalls(events) = 3
    /\ Len(delivered) = 2
    /\ CeilDiv(TotalSamples, SAMPLES_PER_FRAME) = 4

\* C10: at most one captureFrame is outstanding, and a frame is handed to the
\* sink only after the frame before it was accepted and its pacing sleep has
\* elapsed.
C10_Sequential ==
    variant \in PlayVariants
    => /\ Len(inFlight) <= 1
       /\ Len(inFlight) = 1 <=> pc = "capture"
       /\ \A i \in 2..Len(events) :
             events[i] = "captureFrame"
             => /\ i >= 5
                /\ events[i - 3] = "captured"
                /\ events[i - 2] = "sleep"
                /\ events[i - 1] = "woke"

C10_Witness ==
    /\ variant = "index"
    /\ pc = "capture"
    /\ Len(delivered) >= 2
    /\ otherServed >= 1

\* the offset the loop continues with after the iteration in progress
NextLoopOffset == IF variant = "copy" THEN offset + frameSamples ELSE endOffset

\* C15: with at least one sample per frame, and every captureFrame and every
\* pacing sleep completing, a playback ends: each iteration moves the offset
\* strictly forward, the deliveries number at most ceil(bytes / frame bytes),
\* and the call completes or fails.
C15_Terminates ==
    /\ []((variant \in PlayVariants /\ SAMPLES_PER_FRAME >= 1)
          => /\ pc = "capture" => NextLoopOffset > offset
             /\ NumCalls(events) <= CeilDiv(Len(pcmBuffer), FRAME_SIZE_BYTES))
    /\ (variant \in PlayVariants /\ SAMPLES_PER_FRAME >= 1)
         ~> (pc \in {"done", "failed"})

C15_Witness ==
    /\ variant = "index"
    /\ SAMPLES_PER_FRAME = 2
    /\ pc = "done"
    /\ NumCalls(events) = MaxFrames + 1
    /\ offset = Len(pcmBuffer)

\* the sink of the playback: new AudioSource(SAMPLE_RATE, NUM_CHANNELS)
AudioSource == [sampleRate |-> sampleRate, channels |-> NUM_CHANNELS]

\* C18: every frame handed to the sink has the sample rate and the channel
\* count of the sink's AudioSource, and declares as samples per channel the
\* whole number of samples it carries, whatever the length of the buffer.
C18_FrameMatchesSource ==
    variant \in PlayPcmVariants
    => \A i \in 1..Len(Handed) :
         /\ Handed[i].sampleRate = AudioSource.sampleRate
         /\ Handed[i].channels = AudioSource.channels
         /\ Handed[i].samplesPerChannelX2 % 2 = 0
         /\ Handed[i].samplesPerChannelX2 \div 2 = Len(Handed[i].data)

\* C20: a playback never changes the PCM buffer it was given: no step of the
\* call, up to its completion or failure, changes the buffer's length or any of
\* its bytes (nor the frame configuration); the frames already delivered stay
\* as they were.
C20_BufferUnchanged ==
    [][(variant \in PlayVariants)
       => (/\ pcmBuffer' = pcmBuffer
           /\ << sampleRate', frameDurationMs' >> = << sampleRate, frameDurationMs >>
           /\ IsPrefix(delivered, delivered'))]_vars

C20_Witness ==
    /\ variant = "copy"
    /\ pc = "failed"
    /\ Len(delivered) = 2
    /\ Len(pcmBuffer) > 0
    /\ pcmBuffer = InputBuffer(Len(pcmBuffer))

\* C19: two playbacks of the same buffer with the same frame configuration
\* hand the sink the same frames: a later run and an earlier one agree on
\* every frame both got to (same count so far, sizes, samples and declared
\* counts), and two completed runs delivered identical sequences, whatever
\* else the event loop served in between.
C19_Deterministic ==
    variant \in PlayVariants
    => \A i \in 1..Len(earlierRuns) :
         LET r == earlierRuns[i]
         IN  /\ IsPrefix(Handed, r.delivered) \/ IsPrefix(r.delivered, Handed)
             /\ (pc = "done" /\ r.pc = "done") => delivered = r.delivered

C19_Witness ==
    /\ variant = "index"
    /\ Len(earlierRuns) = 1
    /\ earlierRuns[1].pc = "done"
    /\ pc = "done"
    /\ Len(delivered) >= MaxFrames
    /\ Len(pcmBuffer) % 2 = 1
    /\ earlierRuns[1].otherServed # otherServed

\* C21: in every draft the nominal samples per frame is the whole number
\* floor(sampleRate * frameDurationMs / 1000), at least 1: 320 at 16000 Hz and
\* 20 ms, 960 at 48000 Hz and 20 ms; the draft that computes
\* (SAMPLE_RATE / 1000) * FRAME_DURATION_MS without a floor divides a rate that
\* is a multiple of 1000, so its product is that same whole number.
C21_NominalConstant ==
    /\ SAMPLES_PER_FRAME = FlooredSamplesPerFrame(sampleRate, frameDurationMs)
    /\ SAMPLES_PER_FRAME >= 1
    /\ variant = "stream" => sampleRate % 1000 = 0
    /\ (sampleRate = 16000 /\ frameDurationMs = 20) => SAMPLES_PER_FRAME = 320
    /\ (sampleRate = 48000 /\ frameDurationMs = 20) => SAMPLES_PER_FRAME = 960
    /\ sampleRate \in {16000, 48000}
    /\ frameDurationMs = 20

C21_Witness ==
    /\ variant = "stream"
    /\ SAMPLES_PER_FRAME = 960
    /\ pc = "capture"
    /\ Len(inFlight[1].data) = 960

\* the three loops C22 compares
EquivalentLoops == {"index", "copy", "stream"}

\* the sample arrays of a sequence of frames
DataOf(frames) == [i \in 1..Len(frames) |-> frames[i].data]

\* the frames the loop of draft v hands over for the buffer and the frame
\* configuration of the state
FramesOfLoop(v) ==
    IF v # "stream" /\ EmptyGuard(pcmBuffer) THEN << >>
    ELSE LoopFrames(v, 0, pcmBuffer, sampleRate,
                    FlooredSamplesPerFrame(sampleRate, frameDurationMs), MaxCalls)

\* C22: for an even-length buffer the byte-offset loop of index.js, the copying
\* loop of part_003 and the stream loop of part_001 hand over the same frames
\* under the same frame configuration: what the running loop has handed over is
\* the leading part of what each of the three produces, and all of it at
\* completion (same count, sizes and samples).
C22_LoopsAgree ==
    (variant \in EquivalentLoops /\ Len(pcmBuffer) % 2 = 0)
    => \A v \in EquivalentLoops :
         /\ IsPrefix(DataOf(Handed), DataOf(FramesOfLoop(v)))
         /\ pc = "done" => DataOf(delivered) = DataOf(FramesOfLoop(v))

C22_Witness ==
    /\ variant = "stream"
    /\ Len(pcmBuffer) % 2 = 0
    /\ pc = "done"
    /\ Len(delivered) = MaxFrames + 1
    /\ Len(delivered[Len(delivered)].data) < SAMPLES_PER_FRAME
    /\ DataOf(delivered) = DataOf(FramesOfLoop("copy"))

----------------------------------------------------------------------------
(* Claims about the session layer *)

StartAgentVariants == {"index", "part005", "copy"}

\* C11: two concurrent start-session calls never hand frames to the same
\* AudioSource: all the frames an AudioSource was handed come from one call.
C11_OwnSink ==
    \A src \in SourceIds :
        \A i, j \in 1..Len(sources[src]) : sources[src][i] = sources[src][j]

\* ttsElevenLabs of the session did not produce audio
TtsFailed(ses) == ses.tts \in {"nokey", "non2xx", "threw"}

\* C12: when synthesis fails (no API key, a non-2xx answer, a thrown error)
\* ttsElevenLabs yields null and startAgent returns without playing: no
\* captureFrame call, nothing on the call's AudioSource, and startAgent ends
\* normally without an error reaching its catch block.
C12_TtsFailureSkipsPlayback ==
    variant \in StartAgentVariants
    => \A s \in Sessions :
         LET ses == sessions[s]
         IN  /\ TtsFailed(ses)
                => /\ ses.pcm = "null"
                   /\ NumCalls(ses.log) = 0
                   /\ sources[SourceOf(variant, s)] = << >>
                   /\ ses.at = "resolved"
                   /\ Count(ses.log, "error_logged") = 0
             /\ (ses.at \notin {"tts_fetch", "tts_text", "tts_body"}
                   /\ Count(ses.log, "fetch") > 0 /\ ses.tts # "ok")
                => TtsFailed(ses)

C12_Witness ==
    /\ variant = "index"
    /\ sessions[1].tts = "threw"
    /\ sessions[2].tts = "non2xx"
    /\ sessions[1].at = "resolved"
    /\ sessions[2].at = "resolved"

\* C13: a failure of room.connect, publishTrack, the synthesis or a frame
\* delivery is caught and logged inside the background task (startAgent,
\* runTestAgentSession): the task's promise never rejects, the process keeps
\* running, and the success response already sent stays the response.
C13_FailureContained ==
    variant # "stream"
    => /\ processUp
       /\ \A s \in Sessions :
            LET ses == sessions[s]
            IN  /\ ses.at # "rejected"
                /\ ses.log # << >> => ses.response = "ok"
                /\ \A i \in 1..Len(ses.log) :
                     ses.log[i] = "rejected"
                     => /\ i < Len(ses.log)
                        /\ ses.log[i + 1] \in {"error_logged", "tts_error",
                                               "cleanup_error"}

C13_Witness ==
    /\ variant = "index"
    /\ sessions[1].at = "resolved"
    /\ sessions[1].response = "ok"
    /\ Len(sessions[1].log) >= 3
    /\ SubSeq(sessions[1].log, Len(sessions[1].log) - 2, Len(sessions[1].log))
         = << "captureFrame", "rejected", "error_logged" >>
    /\ sessions[2].at = "capture"
    /\ processUp

\* C14: a valid /start-session request is answered in the turn it arrives,
\* before the playback it starts has completed, and with success whatever the
\* background task does later: from the first await of the task on, the
\* response is the success response.
C14_AnsweredAtOnce ==
    \A s \in Sessions :
        LET ses == sessions[s]
        IN  (ses.at # "idle" /\ Validate(variant, ses.body, env) = "pass")
            => ses.response = "ok"

\* C16: once the caller of a startAgent session has disconnected, the
\* session's playback hands no further frame to its sink.
C16_CancellationHonoured ==
    [][\A s \in Sessions :
         (variant \in StartAgentVariants /\ sessions[s].cancelled)
         => NumCalls(sessions'[s].log) = NumCalls(sessions[s].log)]_vars

\* C17: startAgent hands a frame to its audio source only after room.connect
\* and then publishTrack have both resolved, and a session whose connect or
\* publish was rejected hands over no frame at all.
C17_ConnectPublishFirst ==
    variant \in StartAgentVariants
    => \A s \in Sessions :
         LET log == sessions[s].log
         IN  /\ \A i \in 1..Len(log) :
                  log[i] = "captureFrame"
                  => \E j, k \in 1..i :
                       /\ j < k
                       /\ log[j] = "connected"
                       /\ log[k] = "published"
             /\ \A i \in 2..Len(log) :
                  (log[i] = "rejected" /\ log[i - 1] \in {"connect", "publishTrack"})
                  => /\ NumCalls(log) = 0
                     /\ sources[SourceOf(variant, s)] = << >>

C17_Witness ==
    /\ variant = "part005"
    /\ NumCalls(sessions[1].log) = MaxSessionFrames
    /\ sessions[1].at = "resolved"
    /\ sessions[2].at = "resolved"
    /\ \E i \in 2..Len(sessions[2].log) :
         /\ sessions[2].log[i] = "rejected"
         /\ sessions[2].log[i - 1] = "publishTrack"

\* C23: the /start-session route of index.js and part_005 starts the agent
\* exactly when livekitUrl, roomName, agentId and agentToken are all present;
\* with one of the first three missing it answers 400, with only agentToken
\* missing it answers ok, in both cases without calling startAgent; and every
\* request is answered exactly once.
C23_StartIffAllFields ==
    variant \in {"index", "part005"}
    => \A s \in Sessions :
         LET ses == sessions[s]
             firstThree == {"livekitUrl", "roomName", "agentId"} \subseteq ses.body
         IN  ses.at # "idle"
             => /\ ses.log # << >> <=> ses.body = Fields
                /\ ~firstThree
                   => (ses.response = "400" /\ ses.at = "returned")
                /\ (firstThree /\ "agentToken" \notin ses.body)
                   => (ses.response = "ok" /\ ses.at = "returned")
                /\ ses.body = Fields => ses.response = "ok"
                /\ ses.sent = 1

C23_Witness ==
    /\ variant = "index"
    /\ sessions[1].body = Fields \ {"agentToken"}
    /\ sessions[1].at = "returned"
    /\ sessions[1].response = "ok"
    /\ sessions[2].body = Fields
    /\ sessions[2].at = "capture"

----------------------------------------------------------------------------
(* Claims about the edge function *)

Phase1Finished(e) == e.at \in {"start_fetch", "start_body", "responded"}

\* C24: a request that is not a preflight sends POST /start-session as soon
\* as phase 1 has finished, whatever the outcome of /health (HTTP error,
\* timeout, network error), and never before; the body of its response has
\* ok = true exactly when neither phase recorded an error class, and carries
\* the class of phase 2 when both phases recorded one.
C24_StartAfterHealth ==
    \A r \in EdgeRequests :
        LET e == edgeReqs[r]
        IN  e.method = "POST"
            => /\ Phase1Finished(e) <=> e.startTimeout # "unset"
               /\ e.healthErrorClass # "" => Phase1Finished(e)
               /\ e.at = "responded"
                  => /\ e.startTimeout # "unset"
                     /\ e.ok <=> (e.healthErrorClass = "" /\ e.startErrorClass = "")
                     /\ e.startErrorClass # "" => e.errorClass = e.startErrorClass
                     /\ (e.startErrorClass = "" /\ e.healthErrorClass # "")
                        => e.errorClass = e.healthErrorClass

C24_Witness ==
    /\ edgeReqs[1].at = "responded"
    /\ edgeReqs[1].healthErrorClass = "WORKER_HEALTH_TIMEOUT"
    /\ edgeReqs[1].startErrorClass = "WORKER_START_HTTP_503"
    /\ edgeReqs[1].errorClass = "WORKER_START_HTTP_503"
    /\ edgeReqs[2].at = "start_fetch"
    /\ edgeReqs[2].healthErrorClass = "WORKER_HEALTH_NETWORK_ERROR"

\* C25: whenever the body of the edge response has ok = false the status of
\* the response is not 200: 502 when the worker answered /start-session with
\* 500 or more, the worker's own status when it answered 400..499, and an
\* error status as well when /start-session timed out or failed on the
\* network and when only /health failed.
C25_ErrorStatusWhenNotOk ==
    \A r \in EdgeRequests :
        LET e == edgeReqs[r]
        IN  (e.method = "POST" /\ e.at = "responded" /\ ~e.ok)
            => /\ e.status # 200
               /\ e.startHttpStatus >= 500 => e.status = 502
               /\ e.startHttpStatus \in 400..499 => e.status = e.startHttpStatus

\* C26: every request that is not a preflight is eventually answered, and
\* answered once, even when the worker never answers or sends its headers
\* and never finishes its body.
C26_EventuallyAnswered ==
    \A r \in EdgeRequests :
        /\ [](edgeReqs[r].sent <= 1)
        /\ (edgeReqs[r].method = "POST") ~> (edgeReqs[r].at = "responded"
                                              /\ edgeReqs[r].sent = 1)

----------------------------------------------------------------------------
(* Claims about runTestAgentSession *)

Occurrences(seq, x) == Cardinality({ i \in DOMAIN seq : seq[i] = x })

\* C27: when runTestAgentSession has ended, on whatever path (a failure of
\* connect, publishTrack or captureFrame, or success), room.disconnect and
\* dispose have each been invoked; when nothing failed the last three calls
\* are track.close, room.disconnect, dispose, and disconnect and dispose
\* were each invoked exactly once.
C27_CleanupOnEveryPath ==
    (variant = "test" /\ pc = "done")
    => /\ Occurrences(events, "disconnect") >= 1
       /\ Occurrences(events, "dispose") >= 1
       /\ Occurrences(events, "rejected") = 0
          => /\ Len(events) >= 3
             /\ SubSeq(events, Len(events) - 2, Len(events))
                  = << "track.close", "disconnect", "dispose" >>
             /\ Occurrences(events, "disconnect") = 1
             /\ Occurrences(events, "dispose") = 1

----------------------------------------------------------------------------
(* Claims about the TypeScript worker and the forwarding worker *)

\* C28: when AGENT_WORKER_SECRET is set and the x-worker-secret header is
\* missing or different, /start-session answers 401 and the background
\* session is never started; otherwise the background session is started
\* once and the answer is ok:true, also when agentId, roomName or the
\* LiveKit URL is missing; every request is answered once.
C28_AuthThenAlwaysStart ==
    \A r \in TsRequests :
        LET q == tsWorker.reqs[r]
            secretSet == Truthy(tsWorker.AGENT_WORKER_SECRET)
        IN  q.at # "idle"
            => /\ q.sent = 1
               /\ (secretSet /\ q.header # tsWorker.AGENT_WORKER_SECRET)
                  => (q.response = "401" /\ q.background = 0 /\ q.at = "returned")
               /\ (~secretSet \/ q.header = tsWorker.AGENT_WORKER_SECRET)
                  => (q.response = "ok" /\ q.background = 1)

C28_Witness ==
    /\ tsWorker.AGENT_WORKER_SECRET = "s1"
    /\ tsWorker.reqs[1].header = "s1"
    /\ tsWorker.reqs[1].missing = {"agentId", "roomName", "livekitUrl"}
    /\ tsWorker.reqs[1].response = "ok"
    /\ tsWorker.reqs[1].at = "background"

\* C29: the forwarding worker answers every /start-session once, with
\* ok:true, whatever the Python agent does, and does so without waiting for
\* the call of the Python agent's /start to finish.
C29_AckWithoutWaiting ==
    \A r \in FwdRequests :
        fwdReqs[r].at # "idle"
        => (fwdReqs[r].sent = 1 /\ fwdReqs[r].response = "ok")

====
